---- MODULE Spec2Model ----
(***************************************************************************)
(* Model of the event-store transfer tool (src/access-stream.py, and the   *)
(* earlier export-only script src/export-stream.py).                       *)
(*                                                                         *)
(* One behaviour is one session on one file path: a process started in     *)
(* export or import mode (the state after argument parsing and             *)
(* validate_file), and, after an export process has ended, a second        *)
(* process importing the same path.  The event store is the environment:   *)
(* every HTTP request is answered with a status chosen from Statuses, or   *)
(* not answered at all (requests raises, nothing in the code catches it).  *)
(* Text is a sequence of tokens; json.dumps / json.loads, the line         *)
(* splitting of a text file and the archive codec are operators on it.     *)
(* An answer with status 200 carries a well-formed body: a page with its   *)
(* entries and links, or the document of the event.  A `next` link with an *)
(* empty uri ends the while loop like a missing one and is not told apart. *)
(* `posts` holds the append requests the store received: a request that    *)
(* raised never reached it.                                                *)
(***************************************************************************)
EXTENDS Integers, Sequences, FiniteSets, TLC

\* ------------------------------------------------------------------ bounds
MaxEntries == 3      \* entries the store serves to one export, over all pages
MaxPages == 2        \* page fetches of one get_stream_events call
MaxLines == 3        \* lines of a supplied transfer file
MaxPolls == 2        \* status fetches of run_projection that are counted
MaxStreams == 2      \* entries of the index stream

\* ------------------------------------------------------- program constants
HTTP_OK == 200
HTTP_CREATED == 201
HTTP_NOT_FOUND == 404
NoResponse == 0      \* requests raised instead of returning a response
PROGRESS_DONE == 100 \* run_projection: `if progress >= 100.0`

Statuses == {HTTP_OK, HTTP_CREATED, HTTP_NOT_FOUND}
Outcomes == Statuses \cup {NoResponse}

EventIds == {"a", "b"}

\* ------------------------------------------------------------ sequences
RECURSIVE Flatten(_)
Flatten(ss) == IF ss = <<>> THEN <<>> ELSE Head(ss) \o Flatten(Tail(ss))

Reverse(s) == [i \in 1..Len(s) |-> s[Len(s) + 1 - i]]

RECURSIVE SeqsUpTo(_, _)
SeqsUpTo(S, n) ==
  IF n = 0 THEN {<<>>}
  ELSE LET shorter == SeqsUpTo(S, n - 1)
       IN shorter \cup {Append(s, x) : s \in shorter, x \in S}

\* ------------------------------------------------ the store's event records
\* The document the store returns for the event an entry links to.
EventType(id) == IF id = "a" THEN "T1" ELSE "T2"
EventData(id) == IF id = "a" THEN "da" ELSE "db"
EventDoc(id) ==
  [content |-> [eventId |-> id, eventType |-> EventType(id), data |-> EventData(id)]]

\* An entry of a page: its self link.
Entry(id) == [uri |-> id]

\* ----------------------------------------------------------- JSON as text
\* json.dumps of an event document: one object, no newline inside.
DumpsDropsType(doc) ==
  <<"{", "content", "{", "eventId", doc.content.eventId,
    "eventType", doc.content.eventId, "data", doc.content.data, "}", "}">>
Dumps(doc) ==
  <<"{", "content", "{", "eventId", doc.content.eventId,
    "eventType", doc.content.eventType, "data", doc.content.data, "}", "}">>

NoContent == [eventId |-> "", eventType |-> "", data |-> ""]

\* str.strip as json.loads applies it: trailing newlines carry no meaning.
RECURSIVE StripNewlines(_)
StripNewlines(s) ==
  IF s # <<>> /\ s[Len(s)] = "\n" THEN StripNewlines(SubSeq(s, 1, Len(s) - 1)) ELSE s

\* json.loads of one line: ok = FALSE is json.JSONDecodeError; a parsed value
\* either has event['content'] with the three fields or it has not.
Loads(line) ==
  LET s == StripNewlines(line)
  IN IF Len(s) = 11 /\ s[1] = "{" /\ s[2] = "content" /\ s[3] = "{"
        /\ s[4] = "eventId" /\ s[6] = "eventType" /\ s[8] = "data"
        /\ s[10] = "}" /\ s[11] = "}"
     THEN [ok |-> TRUE, has_content |-> TRUE,
           content |-> [eventId |-> s[5], eventType |-> s[7], data |-> s[9]]]
     ELSE IF s = <<"{", "}">>
     THEN [ok |-> TRUE, has_content |-> FALSE, content |-> NoContent]
     ELSE [ok |-> FALSE, has_content |-> FALSE, content |-> NoContent]

\* Iterating a text file: each line ends after its newline; a last line
\* without one is still a line.
RECURSIVE SplitFrom(_, _)
SplitFrom(text, cur) ==
  IF text = <<>> THEN (IF cur = <<>> THEN <<>> ELSE <<cur>>)
  ELSE IF Head(text) = "\n" THEN <<Append(cur, "\n")>> \o SplitFrom(Tail(text), <<>>)
  ELSE SplitFrom(Tail(text), Append(cur, Head(text)))
SplitLines(text) == SplitFrom(text, <<>>)

\* --------------------------------------------------------- archive codec
\* The container stores a member's text run-length encoded (lossless, not
\* the identity); reading the member decodes it.
RECURSIVE Compress(_)
Compress(text) ==
  IF text = <<>> THEN <<>>
  ELSE LET rest == Compress(Tail(text))
       IN IF rest # <<>> /\ rest[1].tok = Head(text)
          THEN <<[tok |-> Head(text), n |-> rest[1].n + 1]>> \o Tail(rest)
          ELSE <<[tok |-> Head(text), n |-> 1]>> \o rest

RECURSIVE Decompress(_)
Decompress(data) ==
  IF data = <<>> THEN <<>>
  ELSE [i \in 1..data[1].n |-> data[1].tok] \o Decompress(Tail(data))

\* Path(...).suffix, the last suffix only, in the place of the joined suffixes.
ExtensionLastSuffix(name) == IF Len(name) > 1 THEN <<name[Len(name)]>> ELSE <<>>

\* ------------------------------------------------------------ file names
\* A name is its dot-separated parts: "dump.tar.xz" is <<"dump","tar","xz">>.
\* Path(name).suffixes joined: every part after the first.
Extension(name) == Tail(name)

\* str.endswith('.' + suffix parts)
EndsWith(name, suffix) ==
  /\ Len(name) > Len(suffix)
  /\ SubSeq(name, Len(name) - Len(suffix) + 1, Len(name)) = suffix

ExtJson == <<"json">>
ExtNone == <<>>
ExtZip == <<"zip">>
ExtTarXz == <<"tar", "xz">>

\* validate_file lets a name through when it has no extension or ends in one
\* of the three supported ones.
ValidateAccepts(name) ==
  \/ Extension(name) = ExtNone
  \/ EndsWith(name, ExtJson) \/ EndsWith(name, ExtTarXz) \/ EndsWith(name, ExtZip)

FileNames ==
  { <<"dump", "json">>, <<"dump">>, <<"dump", "zip">>, <<"dump", "tar", "xz">>,
    <<"dump", "v1", "json">>, <<"dump", "txt">> }

\* ------------------------------------------------------------ file system
NoFile == [kind |-> "none", text |-> <<>>, members |-> {}]
TextFile(t) == [kind |-> "text", text |-> t, members |-> {}]
\* An archive: kind "zip" or "tarxz", members are (path, compressed text).
Archive(kind, members) == [kind |-> kind, text |-> <<>>, members |-> members]
Member(path, text) == [path |-> path, data |-> Compress(text)]

NoDir == [exists |-> FALSE, files |-> {}]
Dir(files) == [exists |-> TRUE, files |-> files]
File(path, text) == [path |-> path, text |-> text]

EventsJson == <<"events", "json">>     \* the temporary file's name on export

\* ----------------------------------------------------- supplied input files
Line(id) == Append(Dumps(EventDoc(id)), "\n")
MalformedLine == <<"{", "content", "\n">>          \* not JSON
NonRecordLine == <<"{", "}", "\n">>                \* JSON, but no 'content'
LineKinds == {Line(id) : id \in EventIds} \cup {MalformedLine, NonRecordLine}

\* "final line may or may not be newline-terminated"
WithoutFinalNewline(t) == IF t = <<>> THEN t ELSE SubSeq(t, 1, Len(t) - 1)

SuppliedTexts ==
  LET whole == {Flatten(ls) : ls \in SeqsUpTo(LineKinds, MaxLines)}
  IN whole \cup {WithoutFinalNewline(t) : t \in whole}

SubDir == <<"sub">>
CandidateMembers ==
  { Member(<<EventsJson>>, Line("a") \o Line("b")),
    Member(<<<<"other", "json">>>>, Line("b")),
    Member(<<<<"notes", "txt">>>>, <<"hello", "\n">>),
    Member(<<SubDir, EventsJson>>, Line("a")),
    Member(<<SubDir, <<"inner", "json">>>>, Line("b")) }

SuppliedArchives ==
  {Archive(k, ms) : k \in {"zip", "tarxz"}, ms \in SUBSET CandidateMembers}

\* A transfer file already at the path, holding one record.
OldFile == TextFile(Line("b"))

\* What validate_file leaves behind it: in import mode the file exists, in
\* export mode it does not exist or its overwrite was confirmed.
InitialDisks(m, name) ==
  IF m = "export" THEN {NoFile, OldFile}
  ELSE IF Extension(name) \in {ExtZip, ExtTarXz}
       THEN SuppliedArchives \cup {TextFile(Line("a"))}
       ELSE {TextFile(t) : t \in SuppliedTexts}

\* ------------------------------------------------------------------ state
VARIABLES
  mode,           \* "export" or "import": args.mode of the running process
  file_name,      \* the validated file path
  pc,             \* where the running process is
  stdout,         \* what the running process has printed
  disk,           \* the file at file_name
  temp_dir,       \* the tempfile.TemporaryDirectory of the running process
  events,         \* get_stream_events: the entries accumulated
  pages,          \* the responses to this call's page fetches, in order
  idx,            \* export_events_to_file: position in reversed(events)
  content_log,    \* the content fetches issued: (uri, status) in order
  page_failed,    \* a page fetch of this session was not answered with a page
  export_exit,    \* how the export process before this import process ended
  lines,          \* import_events: the lines of the open file
  pos,            \* import_events: the line being read
  success_count,
  failure_count,
  walk,           \* process_import_file: directories os.walk has yet to yield
  opened,         \* the paths import_events was called on, in order
  posts,          \* the append requests the store received, in order
  answers,        \* the status the store answered each of them with
  projection,     \* the store's $streams projection: "enabled" or "disabled"
  enables,        \* run_projection: the answers to the enable commands issued
  polls,          \* run_projection: status fetches issued (counted to MaxPolls)
  disables,       \* run_projection: the answers to the disable commands issued
  last_poll,      \* the answer to the last status fetch
  index_fetches,  \* get_available_streams: fetches of the index stream issued
  index_answer,   \* the answer to the fetch of the index stream
  streams         \* what get_available_streams returned

exportVars == <<events, pages, idx, content_log, page_failed, export_exit>>
importVars == <<lines, pos, success_count, failure_count, walk, opened, posts, answers>>
discVars == <<projection, enables, polls, disables, last_poll, index_fetches, index_answer, streams>>
vars == <<mode, file_name, pc, stdout, disk, temp_dir, exportVars, importVars, discVars>>

Msg(text, n, m) == [msg |-> text, n |-> n, m |-> m]

\* ------------------------------------------------------- stream discovery
\* The body of a status answer: data.get("progress", 0).
StatusBody(has, p) == [has_progress |-> has, progress |-> p]
StatusBodies ==
  {StatusBody(FALSE, 0)} \cup {StatusBody(TRUE, p) : p \in {0, 50, PROGRESS_DONE, 150}}
NoPoll == [status |-> NoResponse, has_progress |-> FALSE, progress |-> 0]

\* The stream names the store has, and the entry of the index stream the
\* store publishes for each: its title is "0@" followed by the name.
StreamNames == {<<"orders">>, <<"0@", "x">>}
IndexEntry(name) == [title |-> <<"0@">> \o name, stream |-> name]
IndexBodies == {[i \in 1..Len(ns) |-> IndexEntry(ns[i])] : ns \in SeqsUpTo(StreamNames, MaxStreams)}
NoIndex == [status |-> NoResponse, entries |-> <<>>]

\* str.replace('0@', '', 1): the title without its first "0@".
RECURSIVE ReplaceFirst(_)
ReplaceFirst(title) ==
  IF title = <<>> THEN <<>>
  ELSE IF Head(title) = "0@" THEN Tail(title)
  ELSE <<Head(title)>> \o ReplaceFirst(Tail(title))

\* get_available_streams has returned nothing yet / a list / None.
Pending == [kind |-> "pending", names |-> <<>>]
StreamList(names) == [kind |-> "list", names |-> names]
ReturnedNone == [kind |-> "none", names |-> <<>>]

\* Before get_available_streams is called (and in a process given its stream
\* name, which never calls it).
DiscoveryIdle ==
  /\ projection = "disabled"
  /\ enables = <<>> /\ polls = 0 /\ disables = <<>>
  /\ last_poll = NoPoll
  /\ index_fetches = 0 /\ index_answer = NoIndex
  /\ streams = Pending

Init ==
  /\ mode \in {"export", "import"}
  /\ file_name \in {n \in FileNames : ValidateAccepts(n)}
  /\ disk \in InitialDisks(mode, file_name)
  /\ pc = "main"
  /\ stdout = <<>>
  /\ temp_dir = NoDir
  /\ events = <<>> /\ pages = <<>> /\ idx = 1 /\ content_log = <<>>
  /\ page_failed = FALSE /\ export_exit = "none"
  /\ lines = <<>> /\ pos = 1 /\ success_count = 0 /\ failure_count = 0
  /\ walk = <<>> /\ opened = <<>> /\ posts = <<>> /\ answers = <<>>
  /\ DiscoveryIdle

\* ------------------------------------------------------- paginated reader
\* get_stream_events: `if response.status_code != 200: break`
PageFetchOk(status) == status = HTTP_OK

\* events.extend(data['entries'])
ExtendDeduplicating(es, entries) ==
  es \o SelectSeq(entries, LAMBDA e : \A i \in 1..Len(es) : es[i] # e)
Extend(es, entries) == es \o entries

PageBodies ==
  {[entries |-> es, next |-> nx] :
     es \in SeqsUpTo({Entry(id) : id \in EventIds}, MaxEntries - Len(events)),
     nx \in {b \in BOOLEAN : b => Len(pages) + 1 < MaxPages}}

Page(status, body) == [status |-> status, entries |-> body.entries, next |-> body.next]
NoBody == [entries |-> <<>>, next |-> FALSE]

\* main, export mode: enters get_stream_events.
StartExport ==
  /\ pc = "main" /\ mode = "export"
  /\ pc' = "get_stream_events"
  /\ UNCHANGED <<mode, file_name, stdout, disk, temp_dir, exportVars, importVars>>
  /\ UNCHANGED discVars

\* One iteration of the while loop of get_stream_events.
FetchPage ==
  /\ pc = "get_stream_events"
  /\ \E status \in Outcomes :
       \E body \in (IF status \in {HTTP_OK, HTTP_CREATED} THEN PageBodies ELSE {NoBody}) :
         /\ pages' = Append(pages, Page(status, body))
         /\ page_failed' = (status = NoResponse \/ ~PageFetchOk(status))
         /\ IF status = NoResponse
            THEN /\ pc' = "crashed"
                 /\ UNCHANGED <<events, stdout>>
            ELSE IF ~PageFetchOk(status)
            THEN /\ stdout' = Append(stdout, Msg("Failed to fetch stream page", status, 0))
                 /\ pc' = "export_events"
                 /\ UNCHANGED events
            ELSE /\ events' = Extend(events, body.entries)
                 /\ pc' = IF body.next THEN "get_stream_events" ELSE "export_events"
                 /\ UNCHANGED stdout
  /\ UNCHANGED <<mode, file_name, disk, temp_dir, idx, content_log, export_exit, importVars>>
  /\ UNCHANGED discVars

\* ------------------------------------------------------ event materializer
\* Leaving `with tempfile.TemporaryDirectory()`: by return, exception or exit().
CleanupKeepsDir(dir) == dir
Cleanup(dir) == NoDir

ExportOrderAsReceived(es) == es
ExportOrder(es) == Reverse(es)

\* export_events_to_file: `if event_response.status_code == 200`
ContentFetchAny(status) == TRUE
ContentFetchOk(status) == status = HTTP_OK

\* The text of the file export_events_to_file is writing.
TempText == (CHOOSE f \in temp_dir.files : f.path = <<EventsJson>>).text
WrittenText == IF temp_dir.exists THEN TempText ELSE disk.text

\* export_events entered whatever was collected.
NoEventsNever(es) == FALSE

\* __main__: `if events:` is false, so export_events is not called.
NoEvents(es) == es = <<>>

\* main after get_stream_events returned, export_events up to open(..., 'w').
ExportDispatch ==
  /\ pc = "export_events"
  /\ pages' = <<>>
  /\ IF NoEvents(events)
     THEN /\ stdout' = Append(stdout, Msg("No events were exported.", 0, 0))
          /\ pc' = "done"
          /\ UNCHANGED <<disk, temp_dir>>
     ELSE IF Extension(file_name) \in {ExtJson, ExtNone}
     THEN /\ disk' = TextFile(<<>>)
          /\ pc' = "export_events_to_file"
          /\ UNCHANGED <<stdout, temp_dir>>
     ELSE IF Extension(file_name) \in {ExtZip, ExtTarXz}
     THEN /\ temp_dir' = Dir({File(<<EventsJson>>, <<>>)})
          /\ pc' = "export_events_to_file"
          /\ UNCHANGED <<stdout, disk>>
     ELSE /\ stdout' = stdout \o <<Msg("Unsupported file type", 0, 0),
                                   Msg("Export completed successfully", Len(events), 0)>>
          /\ pc' = "done"
          /\ UNCHANGED <<disk, temp_dir>>
  /\ UNCHANGED <<mode, file_name, events, idx, content_log, page_failed, export_exit, importVars>>
  /\ UNCHANGED discVars

\* One iteration of the loop of export_events_to_file.
ExportEntry ==
  /\ pc = "export_events_to_file" /\ idx <= Len(events)
  /\ LET entry == ExportOrder(events)[idx]
         line == Append(Dumps(EventDoc(entry.uri)), "\n")
     IN \E status \in Outcomes :
          /\ content_log' = Append(content_log, [uri |-> entry.uri, status |-> status])
          /\ IF status = NoResponse
             THEN /\ pc' = "crashed"
                  /\ temp_dir' = Cleanup(temp_dir)
                  /\ UNCHANGED <<disk, idx>>
             ELSE /\ idx' = idx + 1
                  /\ pc' = pc
                  /\ IF ~ContentFetchOk(status)
                     THEN UNCHANGED <<disk, temp_dir>>
                     ELSE IF temp_dir.exists
                     THEN /\ temp_dir' = Dir({File(<<EventsJson>>, TempText \o line)})
                          /\ UNCHANGED disk
                     ELSE /\ disk' = TextFile(disk.text \o line)
                          /\ UNCHANGED temp_dir
  /\ UNCHANGED <<mode, file_name, stdout, events, pages, page_failed, export_exit, importVars>>
  /\ UNCHANGED discVars

\* The loop is over: the file is closed; the direct branch returns to main.
ExportClose ==
  /\ pc = "export_events_to_file" /\ idx > Len(events)
  /\ IF temp_dir.exists
     THEN /\ pc' = "compress"
          /\ stdout' = Append(stdout, Msg("Compressing data", 0, 0))
     ELSE /\ pc' = "done"
          /\ stdout' = Append(stdout, Msg("Export completed successfully", Len(events), 0))
  /\ UNCHANGED <<mode, file_name, disk, temp_dir, exportVars, importVars>>
  /\ UNCHANGED discVars

ArchiveKind(ext) == IF ext = ExtZip THEN "zip" ELSE "tarxz"

\* zipfile.ZipFile(...,'w') / tarfile.open(...,'w:xz') of the temporary file,
\* then the end of the with block and main's report.  The target may not be
\* writable: the error leaves the with block as well.
CompressStep ==
  /\ pc = "compress"
  /\ \E writable \in BOOLEAN :
       IF writable
       THEN /\ disk' = Archive(ArchiveKind(Extension(file_name)),
                               {Member(<<EventsJson>>, TempText)})
            /\ stdout' = stdout \o <<Msg("Compressed data", 0, 0),
                                     Msg("Export completed successfully", Len(events), 0)>>
            /\ pc' = "done"
       ELSE /\ pc' = "crashed"
            /\ UNCHANGED <<disk, stdout>>
  /\ temp_dir' = Cleanup(temp_dir)
  /\ UNCHANGED <<mode, file_name, exportVars, importVars>>
  /\ UNCHANGED discVars

\* ---------------------------------------------------------- replay writer
\* import_event: the payload built from event['content'].
Payload(content) ==
  [eventId |-> content.eventId, eventType |-> content.eventType, data |-> content.data]

\* import_event: `if response.status_code not in [200, 201]: return False`
UploadOkOnly200(status) == status = HTTP_OK
UploadOk(status) == status \in {HTTP_OK, HTTP_CREATED}

\* What `except json.JSONDecodeError` catches: a line json.loads rejects.
Caught(parsed) == ~parsed.ok

\* The line read after a line json.loads rejected: the try is inside the loop.
AfterRejectedLineStop(p, ls) == Len(ls) + 1
AfterRejectedLine(p, ls) == p + 1

\* import_events is entered: open(filename), counters at zero.
EnterImportEvents(path, text) ==
  /\ lines' = SplitLines(text)
  /\ pos' = 1
  /\ success_count' = 0
  /\ failure_count' = 0
  /\ opened' = Append(opened, path)
  /\ pc' = "import_events"

\* One iteration of `for line in file` in import_events (import_event included).
ImportLine ==
  /\ pc = "import_events" /\ pos <= Len(lines)
  /\ LET parsed == Loads(lines[pos])
     IN IF Caught(parsed)
        THEN /\ stdout' = Append(stdout, Msg("Error decoding JSON", pos, 0))
             /\ pos' = AfterRejectedLine(pos, lines)
             /\ pc' = pc
             /\ UNCHANGED <<success_count, failure_count, posts, answers, temp_dir>>
        ELSE IF ~parsed.has_content
        THEN \* KeyError in import_event: not a JSONDecodeError, nothing catches it
             /\ pc' = "crashed"
             /\ temp_dir' = Cleanup(temp_dir)
             /\ UNCHANGED <<stdout, pos, success_count, failure_count, posts, answers>>
        ELSE \E status \in Outcomes :
               IF status = NoResponse
               THEN /\ pc' = "crashed"
                    /\ temp_dir' = Cleanup(temp_dir)
                    /\ UNCHANGED <<stdout, pos, success_count, failure_count, posts, answers>>
               ELSE /\ posts' = Append(posts, Payload(parsed.content))
                    /\ answers' = Append(answers, status)
                    /\ pos' = pos + 1
                    /\ pc' = pc
                    /\ UNCHANGED temp_dir
                    /\ IF UploadOk(status)
                       THEN /\ success_count' = success_count + 1
                            /\ UNCHANGED <<failure_count, stdout>>
                       ELSE /\ failure_count' = failure_count + 1
                            /\ stdout' = Append(stdout, Msg("Failed to upload event", status, 0))
                            /\ UNCHANGED success_count
  /\ UNCHANGED <<mode, file_name, disk, exportVars, lines, walk, opened>>
  /\ UNCHANGED discVars

\* The file is exhausted: import_events prints its counts and returns, to the
\* os.walk loop or to main.
ImportFinish ==
  /\ pc = "import_events" /\ pos > Len(lines)
  /\ LET report == Msg("events successfully uploaded", success_count, failure_count)
     IN IF temp_dir.exists
        THEN /\ pc' = "walk"
             /\ stdout' = Append(stdout, report)
        ELSE /\ pc' = "done"
             /\ stdout' = stdout \o <<report, Msg("Import process completed.", 0, 0)>>
  /\ UNCHANGED <<mode, file_name, disk, temp_dir, exportVars, importVars>>
  /\ UNCHANGED discVars

\* ----------------------------------------------------- import, archive side
\* os.listdir(temp_dir): the names at the top level, files and directories.
TopLevelNames(dir) == {f.path[1] : f \in dir.files}

\* [f for f in os.listdir(temp_dir) if f.endswith('.json')]
JsonFiles(dir) == {n \in TopLevelNames(dir) : EndsWith(n, ExtJson)}

\* os.walk(temp_dir): the top directory, then each directory below it.
RECURSIVE SetToSeq(_)
SetToSeq(S) == IF S = {} THEN <<>> ELSE LET x == CHOOSE y \in S : TRUE
                                        IN <<x>> \o SetToSeq(S \ {x})
WalkRoots(dir) ==
  <<<<>>>> \o SetToSeq({SubSeq(f.path, 1, Len(f.path) - 1) : f \in dir.files} \ {<<>>})

\* zipfile.ZipFile(filename,'r') / tarfile.open(filename,'r:xz') accept the file.
Extractable(d, ext) == d.kind = ArchiveKind(ext)

\* process_import_file up to the first import_events call or the os.walk loop.
ProcessImportFile ==
  /\ pc = "main" /\ mode = "import"
  /\ IF Extension(file_name) \in {ExtJson, ExtNone}
     THEN /\ EnterImportEvents(<<file_name>>, disk.text)
          /\ UNCHANGED <<stdout, temp_dir, walk>>
     ELSE IF Extension(file_name) \in {ExtZip, ExtTarXz}
     THEN IF Extractable(disk, Extension(file_name))
          THEN /\ temp_dir' = Dir({File(m.path, Decompress(m.data)) : m \in disk.members})
               /\ walk' = WalkRoots(temp_dir')
               /\ stdout' = stdout \o <<Msg("Extracting data", 0, 0), Msg("Extracted data", 0, 0)>>
               /\ pc' = "walk"
               /\ UNCHANGED <<lines, pos, success_count, failure_count, opened>>
          ELSE \* BadZipFile / ReadError inside the with block
               /\ temp_dir' = Cleanup(Dir({}))
               /\ stdout' = Append(stdout, Msg("Extracting data", 0, 0))
               /\ pc' = "crashed"
               /\ UNCHANGED <<lines, pos, success_count, failure_count, opened, walk>>
     ELSE /\ stdout' = stdout \o <<Msg("Unsupported file type", 0, 0),
                                   Msg("Import process completed.", 0, 0)>>
          /\ pc' = "done"
          /\ UNCHANGED <<temp_dir, lines, pos, success_count, failure_count, opened, walk>>
  /\ UNCHANGED <<mode, file_name, disk, exportVars, posts, answers>>
  /\ UNCHANGED discVars

\* One iteration of `for root, dirs, files in os.walk(temp_dir)`, up to the
\* import_events call it makes; or the end of the loop and of the with block.
WalkStep ==
  /\ pc = "walk"
  /\ IF walk = <<>>
     THEN /\ temp_dir' = Cleanup(temp_dir)
          /\ stdout' = Append(stdout, Msg("Import process completed.", 0, 0))
          /\ pc' = "done"
          /\ UNCHANGED <<lines, pos, success_count, failure_count, opened, walk>>
     ELSE LET root == Head(walk)
              json_files == JsonFiles(temp_dir)
          IN IF Cardinality(json_files) > 1
             THEN /\ stdout' = Append(stdout, Msg("Error: Multiple JSON files", 0, 0))
                  /\ temp_dir' = Cleanup(temp_dir)
                  /\ pc' = "exited"
                  /\ UNCHANGED <<lines, pos, success_count, failure_count, opened, walk>>
             ELSE IF Cardinality(json_files) = 0
             THEN /\ stdout' = Append(stdout, Msg("Error: No json files", 0, 0))
                  /\ temp_dir' = Cleanup(temp_dir)
                  /\ pc' = "exited"
                  /\ UNCHANGED <<lines, pos, success_count, failure_count, opened, walk>>
             ELSE LET path == Append(root, CHOOSE n \in json_files : TRUE)
                  IN IF \E f \in temp_dir.files : f.path = path
                     THEN /\ EnterImportEvents(path,
                                (CHOOSE f \in temp_dir.files : f.path = path).text)
                          /\ walk' = Tail(walk)
                          /\ UNCHANGED <<stdout, temp_dir>>
                     ELSE \* FileNotFoundError from open()
                          /\ opened' = Append(opened, path)
                          /\ temp_dir' = Cleanup(temp_dir)
                          /\ pc' = "crashed"
                          /\ UNCHANGED <<stdout, lines, pos, success_count, failure_count, walk>>
  /\ UNCHANGED <<mode, file_name, disk, exportVars, posts, answers>>
  /\ UNCHANGED discVars

\* ------------------------------------------------------- stream discovery
\* run_projection treats any answer to the enable command as a success.
EnableOkAny(status) == TRUE

\* run_projection: `if response.status_code != 200: ... exit()`.
EnableOk(status) == status = HTTP_OK

\* The projection counts as complete only above 100.
ProjectionCompleteAbove(progress) == progress > PROGRESS_DONE

\* run_projection: `if progress >= 100.0: break`.
ProjectionComplete(progress) == progress >= PROGRESS_DONE

\* data.get("progress", 0)
ProgressOf(data) == IF data.has_progress THEN data.progress ELSE 0

\* A failed disable command ends the process as a failed enable does.
AfterDisableFatal(status) == IF status = HTTP_OK THEN "Done" ELSE "exited"

\* run_projection returns after the disable command whatever its status.
AfterDisable(status) == "Done"

\* Enabling: the enable command.
Enable ==
  /\ pc = "Enabling"
  /\ \E status \in Outcomes :
       /\ enables' = Append(enables, status)
       /\ IF status = NoResponse
          THEN /\ pc' = "crashed"
               /\ UNCHANGED <<stdout, projection>>
          ELSE IF ~EnableOk(status)
          THEN /\ stdout' = Append(stdout, Msg("Failed to start projection", status, 0))
               /\ pc' = "exited"
               /\ UNCHANGED projection
          ELSE /\ projection' = "enabled"
               /\ pc' = "Polling"
               /\ UNCHANGED stdout
  /\ UNCHANGED <<mode, file_name, disk, temp_dir, exportVars, importVars>>
  /\ UNCHANGED <<polls, disables, last_poll, index_fetches, index_answer, streams>>

\* Polling: one status fetch of the `while True` loop.
Poll(status, data) ==
  /\ pc = "Polling"
  /\ polls' = IF polls < MaxPolls THEN polls + 1 ELSE polls
  /\ last_poll' = [status |-> status, has_progress |-> data.has_progress,
                   progress |-> data.progress]
  /\ IF status = NoResponse
     THEN /\ pc' = "crashed"
          /\ UNCHANGED stdout
     ELSE IF status = HTTP_OK
     THEN /\ pc' = IF ProjectionComplete(ProgressOf(data)) THEN "Disabling" ELSE "Polling"
          /\ UNCHANGED stdout
     ELSE /\ stdout' = Append(stdout, Msg("Failed to fetch projection status", status, 0))
          /\ pc' = "Disabling"
  /\ UNCHANGED <<mode, file_name, disk, temp_dir, exportVars, importVars>>
  /\ UNCHANGED <<projection, enables, disables, index_fetches, index_answer, streams>>

\* The answers a status fetch can get.
PollAnswers ==
  {<<HTTP_OK, b>> : b \in StatusBodies}
    \cup {<<st, StatusBody(FALSE, 0)>> : st \in Outcomes \ {HTTP_OK}}

\* A status fetch that is answered with progress below 100 or none.
PollPending ==
  \E a \in PollAnswers :
    /\ a[1] = HTTP_OK /\ ~ProjectionComplete(ProgressOf(a[2]))
    /\ Poll(a[1], a[2])

\* A status fetch that reports progress of 100 or more, or fails.
PollEnds ==
  \E a \in PollAnswers :
    /\ ~(a[1] = HTTP_OK /\ ~ProjectionComplete(ProgressOf(a[2])))
    /\ Poll(a[1], a[2])

\* Disabling: the disable command.
Disable ==
  /\ pc = "Disabling"
  /\ \E status \in Outcomes :
       /\ disables' = Append(disables, status)
       /\ IF status = NoResponse
          THEN /\ pc' = "crashed"
               /\ UNCHANGED <<stdout, projection>>
          ELSE /\ pc' = AfterDisable(status)
               /\ IF status # HTTP_OK
                  THEN /\ stdout' = Append(stdout, Msg("Failed to stop projection", status, 0))
                       /\ UNCHANGED projection
                  ELSE /\ projection' = "disabled"
                       /\ UNCHANGED stdout
  /\ UNCHANGED <<mode, file_name, disk, temp_dir, exportVars, importVars>>
  /\ UNCHANGED <<enables, polls, last_poll, index_fetches, index_answer, streams>>

\* get_available_streams after run_projection returned: the fetch of the
\* index stream.
FetchIndex ==
  /\ pc = "Done"
  /\ \E status \in Outcomes :
       \E entries \in (IF status = HTTP_OK THEN IndexBodies ELSE {<<>>}) :
         /\ index_fetches' = index_fetches + 1
         /\ index_answer' = [status |-> status, entries |-> entries]
         /\ IF status = NoResponse
            THEN /\ pc' = "crashed"
                 /\ UNCHANGED <<stdout, streams>>
            ELSE IF status = HTTP_OK
            THEN /\ streams' = StreamList([i \in 1..Len(entries) |-> ReplaceFirst(entries[i].title)])
                 /\ pc' = "returned"
                 /\ UNCHANGED stdout
            ELSE /\ stdout' = Append(stdout, Msg("Failed to list streams", status, 0))
                 /\ streams' = ReturnedNone
                 /\ pc' = "returned"
  /\ UNCHANGED <<mode, file_name, disk, temp_dir, exportVars, importVars>>
  /\ UNCHANGED <<projection, enables, polls, disables, last_poll>>

\* ------------------------------------------------------------- the session
Ended == pc \in {"done", "crashed", "exited"}

\* After the export process has ended, a new process imports the same path
\* (validate_file in import mode requires the file to exist).
StartImportOfExport ==
  /\ Ended /\ mode = "export"
  /\ disk # NoFile
  /\ mode' = "import"
  /\ pc' = "main"
  /\ stdout' = <<>>
  /\ export_exit' = pc
  /\ UNCHANGED <<file_name, disk, temp_dir, events, pages, idx, content_log, page_failed, importVars>>
  /\ UNCHANGED discVars

Next ==
  \/ StartExport
  \/ FetchPage
  \/ ExportDispatch
  \/ ExportEntry
  \/ ExportClose
  \/ CompressStep
  \/ ProcessImportFile
  \/ WalkStep
  \/ ImportLine
  \/ ImportFinish
  \/ StartImportOfExport

Spec == Init /\ [][Next]_vars

\* A process started without a stream name: get_available_streams is called
\* before anything else is done with the file.
InitDiscovery ==
  /\ mode \in {"export", "import"}
  /\ file_name = <<"dump", "json">>
  /\ disk = NoFile
  /\ pc = "Enabling"
  /\ stdout = <<>>
  /\ temp_dir = NoDir
  /\ events = <<>> /\ pages = <<>> /\ idx = 1 /\ content_log = <<>>
  /\ page_failed = FALSE /\ export_exit = "none"
  /\ lines = <<>> /\ pos = 1 /\ success_count = 0 /\ failure_count = 0
  /\ walk = <<>> /\ opened = <<>> /\ posts = <<>> /\ answers = <<>>
  /\ DiscoveryIdle

NextDiscovery ==
  \/ Enable
  \/ PollPending
  \/ PollEnds
  \/ Disable
  \/ FetchIndex

SpecDiscovery == InitDiscovery /\ [][NextDiscovery]_vars

\* The process keeps running, and the store eventually reports the projection
\* complete or fails a status fetch.
SpecDiscoveryFair ==
  /\ InitDiscovery /\ [][NextDiscovery]_vars
  /\ WF_vars(Enable) /\ WF_vars(PollEnds) /\ WF_vars(Disable) /\ WF_vars(FetchIndex)

\* ------------------------------------------------------------- properties
Last(s) == s[Len(s)]

\* The store's records behind the retrieved entries, oldest first: the feed
\* lists them newest first.
SourceRecords == [i \in 1..Len(events) |-> EventDoc(events[Len(events) + 1 - i].uri).content]

AllPagesOk == \A i \in 1..Len(pages) : pages[i].status = HTTP_OK
AllContentOk ==
  /\ Len(content_log) = Len(events)
  /\ \A i \in 1..Len(content_log) : content_log[i].status = HTTP_OK

\* The import process of a session whose export process fetched every page and
\* every event and finished writing the transfer file.
ImportOfCleanExport ==
  /\ mode = "import" /\ export_exit = "done"
  /\ events # <<>> /\ ~page_failed /\ AllContentOk

\* C1: round trip.  When an export in which every fetch succeeded has written
\* a .json, .zip or .tar.xz file and the import of that file has completed,
\* the store has received exactly one append request per exported record,
\* with the records' (eventId, eventType, data) in the original order, oldest
\* first.
C1_RoundTrip ==
  (/\ ImportOfCleanExport
   /\ Extension(file_name) \in {ExtJson, ExtZip, ExtTarXz}
   /\ pc = "done")
  => posts = SourceRecords

C1_Witness ==
  /\ ImportOfCleanExport
  /\ Extension(file_name) = ExtTarXz
  /\ pc = "done"
  /\ Len(posts) = 3 /\ posts[1] # posts[2]

\* C2: pagination completeness.  While every page so far was fetched with
\* success the reader holds the concatenation of the pages' entries, it goes
\* on fetching only after a page with a `next` link, and once it has returned
\* after K successful fetches the last page had no `next` link and the result
\* is the concatenation of the K pages' entries, repeated entries included.
C2_PaginationComplete ==
  (pages # <<>> /\ AllPagesOk) =>
     /\ pc \in {"get_stream_events", "export_events"}
     /\ events = Flatten([i \in 1..Len(pages) |-> pages[i].entries])
     /\ (pc = "get_stream_events") = Last(pages).next

C2_Witness ==
  /\ pc = "export_events" /\ AllPagesOk
  /\ Len(pages) = 2 /\ ~Last(pages).next
  /\ Len(pages[1].entries) = 2 /\ pages[2].entries = <<pages[1].entries[2]>>
  /\ Len(events) = 3

\* C3 (as claimed): a page fetch that fails, by a non-2xx answer or by the
\* server being unreachable, ends the reader without an error reaching its
\* caller and with the entries of the pages before it; a page answered with
\* another 2xx status is read like any page.
C3_TruncationAsClaimed ==
  \A j \in 1..Len(pages) :
    IF pages[j].status \in {HTTP_OK, HTTP_CREATED}
    THEN (j = Len(pages) /\ pages[j].next) => pc = "get_stream_events"
    ELSE /\ j = Len(pages)
         /\ pc = "export_events"
         /\ events = Flatten([i \in 1..(j - 1) |-> pages[i].entries])

\* The export process is inside export_events_to_file or past it, with the
\* written file still in its hands or finished.
Writing == mode = "export" /\ pc \in {"export_events_to_file", "compress"}
\* The export process has returned from export_events with the file written.
Written ==
  /\ mode = "export" /\ pc = "done" /\ events # <<>>
  /\ Extension(file_name) \in {ExtJson, ExtNone, ExtZip, ExtTarXz}

\* Re-reading the transfer file the export left: the text, unwrapped from its
\* container when it has one.
ExportedText ==
  IF disk.kind = "text" THEN disk.text
  ELSE Decompress((CHOOSE m \in disk.members : m.path = <<EventsJson>>).data)

\* The eventIds of the records on the given lines.
RecordIds(ls) == [i \in 1..Len(ls) |-> Loads(ls[i]).content.eventId]

\* The content fetches answered with the event, in the order issued.
Fetched == SelectSeq(content_log, LAMBDA f : f.status = HTTP_OK)

\* C4: ordering preservation.  The events are fetched from the last entry of
\* the list to the first; while every content fetch has succeeded, line i of
\* the file being written is the event of entry N+1-i, and so is line i of
\* the finished file, read back directly or out of its .zip / .tar.xz
\* container, and line i of what the import of that file reads.
C4_OrderingPreserved ==
  /\ \A i \in 1..Len(content_log) : content_log[i].uri = events[Len(events) + 1 - i].uri
  /\ (Writing /\ \A i \in 1..Len(content_log) : content_log[i].status = HTTP_OK)
       => RecordIds(SplitLines(WrittenText)) =
            [i \in 1..Len(content_log) |-> events[Len(events) + 1 - i].uri]
  /\ (Written /\ AllContentOk)
       => SplitLines(ExportedText) =
            [i \in 1..Len(events) |-> Line(events[Len(events) + 1 - i].uri)]
  /\ (ImportOfCleanExport /\ pc = "import_events")
       => lines = [i \in 1..Len(events) |-> Line(events[Len(events) + 1 - i].uri)]

C4_Witness ==
  /\ ImportOfCleanExport /\ pc = "import_events"
  /\ Extension(file_name) = ExtZip
  /\ Len(lines) = 3 /\ lines[1] # lines[3]

WellFormed(line) == Loads(line).ok /\ Loads(line).has_content
Rejected(line) == ~Loads(line).ok

\* The payloads of the well-formed lines among the first n lines, in order.
RecordsOf(ls, n) ==
  LET good == SelectSeq(SubSeq(ls, 1, n), WellFormed)
  IN [i \in 1..Len(good) |-> Loads(good[i]).content]

\* The first import_events call of an import process: the one on the file
\* itself, or on the archive's member.
InFirstReplay == mode = "import" /\ Len(opened) = 1 /\ pc \in {"import_events", "walk", "done", "crashed"}
ReplayRunning == InFirstReplay /\ pc = "import_events"
ReplayReturned == InFirstReplay /\ pc \in {"walk", "done"}

\* A file of valid record lines and exactly one line that is not JSON.
OneMalformedLine ==
  /\ Cardinality({i \in 1..Len(lines) : Rejected(lines[i])}) = 1
  /\ \A i \in 1..Len(lines) : Rejected(lines[i]) \/ WellFormed(lines[i])

ReportOf(s, f) == Msg("events successfully uploaded", s, f)
Printed(m) == \E i \in 1..Len(stdout) : stdout[i] = m

\* C6: replay failure isolation.  On a file of M valid record lines and one
\* malformed line, no request is issued for the malformed line and the loop
\* does not stop at it: the requests received are those of the valid lines
\* read so far, in file order, and when import_events returns all M were
\* submitted; it reports M successes when every submission was accepted.
C6_MalformedLineSkipped ==
  (InFirstReplay /\ OneMalformedLine) =>
     /\ pc = "crashed" => (pos <= Len(lines) /\ WellFormed(lines[pos]))
     /\ ReplayRunning => posts = RecordsOf(lines, pos - 1)
     /\ ReplayReturned =>
          /\ posts = RecordsOf(lines, Len(lines))
          /\ Len(posts) = Len(lines) - 1
          /\ (\A i \in 1..Len(answers) : answers[i] \in {HTTP_OK, HTTP_CREATED})
               => Printed(ReportOf(Len(lines) - 1, 0))

C6_Witness ==
  /\ InFirstReplay /\ OneMalformedLine /\ pc = "done"
  /\ Len(lines) = 3 /\ Rejected(lines[2])
  /\ Printed(ReportOf(2, 0))

\* The number of the requests answered with a status in S.
Answered(S) == Cardinality({i \in 1..Len(answers) : answers[i] \in S})

\* C7: replay counting without retry.  Each well-formed line read causes one
\* request; an answer of 200 or 201 counts as a success and any other status
\* as a failure, so the two counters add up to the requests issued so far,
\* and when import_events returns, to the well-formed lines of the file.
C7_CountsWithoutRetry ==
  InFirstReplay =>
     /\ success_count = Answered({HTTP_OK, HTTP_CREATED})
     /\ failure_count = Answered(Statuses \ {HTTP_OK, HTTP_CREATED})
     /\ success_count + failure_count = Len(posts)
     /\ ReplayRunning => posts = RecordsOf(lines, pos - 1)
     /\ ReplayReturned =>
          /\ posts = RecordsOf(lines, Len(lines))
          /\ Printed(ReportOf(success_count, failure_count))

C7_Witness ==
  /\ ReplayReturned /\ pc = "done"
  /\ answers = <<HTTP_NOT_FOUND, HTTP_CREATED, HTTP_OK>>
  /\ posts[1] = posts[2]
  /\ success_count = 2 /\ failure_count = 1

\* C8 (as claimed): whatever happens to a record, import_events reads every
\* later line: an import process never ends by an error with lines unread.
C8_NeverAbortsAsClaimed ==
  (mode = "import" /\ pc = "crashed") => pos > Len(lines)

\* ------------------------------------------------ properties of the archive
JsonMembers(d) == {m \in d.members : EndsWith(Last(m.path), ExtJson)}

\* The import process has extracted the archive at file_name.
Extracted ==
  /\ mode = "import"
  /\ Extension(file_name) \in {ExtZip, ExtTarXz}
  /\ Extractable(disk, Extension(file_name))
  /\ pc # "main"

\* C9 (as claimed): an archive with no .json member or with two or more,
\* wherever they sit, is refused: the import exits and no append request
\* is issued.
C9_MemberCountGuardAsClaimed ==
  (Extracted /\ Cardinality(JsonMembers(disk)) # 1) =>
     /\ posts = <<>>
     /\ pc \in {"walk", "exited"}

\* C10: temporary-artifact cleanup.  The temporary directory exists only
\* inside the with block of the .zip / .tar.xz branch; once the process has
\* ended, by returning, by an error or by exit(), it is gone.
C10_TempDirCleanedUp ==
  /\ Ended => ~temp_dir.exists
  /\ temp_dir.exists =>
       /\ Extension(file_name) \in {ExtZip, ExtTarXz}
       /\ pc \in {"export_events_to_file", "compress", "walk", "import_events"}
  /\ (Extension(file_name) \in {ExtZip, ExtTarXz}
      /\ pc \in {"export_events_to_file", "compress", "walk", "import_events"})
       => temp_dir.exists

C10_Witness ==
  /\ pc = "exited" /\ ~temp_dir.exists
  /\ Extracted /\ disk.members # {}
\* ---------------------------------------------------------------- C11
\* The joined suffixes of the file name are none of '', '.json', '.zip' and
\* '.tar.xz'.
Unsupported == Tail(file_name) \notin {<<>>, <<"json">>, <<"zip">>, <<"tar", "xz">>}

\* C11: with a file name whose extension is none of '', '.json', '.zip',
\* '.tar.xz', the export fetches no event content, creates no temporary
\* directory and leaves the target file as it was, the import opens and
\* extracts nothing and sends no append request, and both report
\* "Unsupported file type".
C11_UnsupportedRejected ==
  /\ [](Unsupported =>
          /\ content_log = <<>>
          /\ ~temp_dir.exists
          /\ opened = <<>> /\ posts = <<>> /\ lines = <<>>
          /\ (pc = "done" /\ (mode = "import" \/ events # <<>>))
                => Printed(Msg("Unsupported file type", 0, 0)))
  /\ [][Unsupported => disk' = disk]_vars

\* An export of a nonempty stream to dump.v1.json over an existing file was
\* rejected.
C11_Witness ==
  /\ Unsupported /\ mode = "export" /\ pc = "done"
  /\ events # <<>> /\ disk = OldFile
  /\ Printed(Msg("Unsupported file type", 0, 0))

\* ---------------------------------------------------------------- C16
\* C16 (as claimed): a file name validate_file accepted is never rejected as
\* unsupported by export_events or process_import_file.
C16_ValidationMatchesDispatchAsClaimed ==
  ValidateAccepts(file_name) => ~Printed(Msg("Unsupported file type", 0, 0))

\* ---------------------------------------------------------------- C17
\* C17 (as claimed): when the export prints "Export completed successfully.
\* Total events exported: X", a transfer file has been written by this
\* export and X is the number of lines in it.
C17_ExportReportTruthfulAsClaimed ==
  \A i \in 1..Len(stdout) :
    (mode = "export" /\ stdout[i].msg = "Export completed successfully") =>
      /\ Written
      /\ stdout[i].n = Len(SplitLines(ExportedText))

\* ---------------------------------------------------------------- C18
\* The .json members at the top level of the supplied archive.
TopLevelJson == {m \in disk.members : Len(m.path) = 1 /\ EndsWith(m.path[1], ExtJson)}

\* C18 (as claimed): when the extracted archive has exactly one .json file at
\* its top level, import_events runs at most once, on that file, and no other
\* path is opened, whatever else the archive contains.
C18_SingleImportPassAsClaimed ==
  (Extracted /\ Cardinality(TopLevelJson) = 1) =>
     /\ Len(opened) <= 1
     /\ \A i \in 1..Len(opened) : \E m \in TopLevelJson : opened[i] = m.path

\* ---------------------------------------------------------------- C19
\* The lines an export to a '.json' or extension-less name has in its target
\* file are those of the content fetches answered so far.
TargetHoldsFetched ==
  /\ disk.kind = "text"
  /\ SplitLines(disk.text) = [i \in 1..Len(Fetched) |-> Line(Fetched[i].uri)]

\* C19 (as claimed): while pages are fetched, and when no entry was collected,
\* no content is fetched and the target file is left as it was; with at least
\* one entry the target file itself is opened and truncated before the first
\* content fetch, for every file name.
C19_TargetOpenedBeforeFetchAsClaimed ==
  /\ [][(pc = "get_stream_events" \/ events' = <<>>)
          => (disk' = disk /\ content_log' = <<>>)]_vars
  /\ [](mode = "export" /\ events # <<>> /\ pc \notin {"get_stream_events", "export_events"}
          => TargetHoldsFetched)

\* C19 (amended): while pages are fetched, and when no entry was collected, no
\* content is fetched and the target file is left as it was.  With at least
\* one entry and a '.json' or extension-less name the target file is opened
\* and truncated before the first content fetch and holds the records
\* fetched so far; with a '.zip' or '.tar.xz' name the target file is left as
\* it was during every content fetch and is written only by the compression
\* step, after the last content fetch.
C19_TargetOpenedWhenDirect ==
  /\ [][(pc = "get_stream_events" \/ events' = <<>>)
          => (disk' = disk /\ content_log' = <<>>)]_vars
  /\ [](mode = "export" /\ pc = "export_events_to_file"
            /\ Extension(file_name) \in {ExtJson, ExtNone}
          => /\ events # <<>>
             /\ TargetHoldsFetched
             /\ content_log = <<>> => disk = TextFile(<<>>))
  /\ [][(Extension(file_name) \in {ExtZip, ExtTarXz} /\ disk' # disk)
          => (pc = "compress" /\ pc' = "done" /\ Len(content_log) = Len(events))]_vars

\* An export to an archive name over an existing file has fetched content
\* while the existing file is still as it was.
C19_Witness ==
  /\ mode = "export" /\ pc = "export_events_to_file"
  /\ Extension(file_name) \in {ExtZip, ExtTarXz}
  /\ content_log # <<>> /\ disk = OldFile

\* ---------------------------------------------------------------- C12
\* run_projection is no longer running: it returned, or the process ended.
CallEnded == pc \in {"Done", "returned", "exited", "crashed"}

\* C12 (as claimed): once the enable command has succeeded, the disable
\* command has been issued exactly once when the call has ended, however
\* polling ended.
C12_AlwaysDisablesAsClaimed ==
  (enables = <<HTTP_OK>> /\ CallEnded) => Len(disables) = 1

\* ---------------------------------------------------------------- C13
\* C13: when the enable command is not answered 200, nothing follows it: no
\* status fetch, no disable command, no fetch of the index stream, and
\* get_available_streams returns nothing because the process has ended.
C13_EnableFailureFatal ==
  (enables # <<>> /\ enables[1] # HTTP_OK) =>
     /\ Len(enables) = 1
     /\ polls = 0 /\ last_poll = NoPoll
     /\ disables = <<>>
     /\ index_fetches = 0 /\ index_answer = NoIndex
     /\ streams = Pending
     /\ pc \in {"exited", "crashed"}
     /\ projection = "disabled"

\* The enable command was answered 404 and the process has exited.
C13_Witness ==
  /\ enables = <<HTTP_NOT_FOUND>> /\ pc = "exited"
  /\ Printed(Msg("Failed to start projection", HTTP_NOT_FOUND, 0))

\* ---------------------------------------------------------------- C14
\* The last status fetch was answered 200 with progress below 100 or without
\* a progress field.
AnsweredPending(a) ==
  /\ a.status = HTTP_OK
  /\ (IF a.has_progress THEN a.progress ELSE 0) < 100

C15_DisableNonFatal ==
  /\ (disables # <<>> /\ disables[1] \in Statuses) =>
        /\ pc \in {"Done", "returned", "crashed"}
        /\ pc = "crashed" => index_answer.status = NoResponse /\ index_fetches = 1
  /\ pc = "Done" => (Len(disables) = 1 /\ index_fetches = 0)
  /\ pc = "returned" =>
        /\ Len(disables) = 1 /\ index_fetches = 1
        /\ index_answer.status = HTTP_OK =>
              streams = StreamList([i \in 1..Len(index_answer.entries) |->
                                      index_answer.entries[i].stream])
        /\ index_answer.status # HTTP_OK => streams = ReturnedNone

\* Polling stopped on a failed status fetch, the disable command failed, and
\* get_available_streams has returned the names of the index entries.
C15_Witness ==
  /\ pc = "returned"
  /\ last_poll.status = HTTP_NOT_FOUND /\ disables = <<HTTP_NOT_FOUND>>
  /\ streams.kind = "list" /\ Len(streams.names) = 2

====
